---- MODULE Spec2Model ----
(***************************************************************************)
(* Model of tvpine-cli/src/datafeed/streamer.py: MultiExchangeStreamer.    *)
(*                                                                         *)
(* One session object.  Three threads of control touch it:                 *)
(*   - the caller, which runs fetch_historical (one blocking call),        *)
(*   - the live worker, which runs start_live and, inside run_forever,     *)
(*     the websocket callbacks on_open / on_message / on_close,            *)
(*   - the stopper, which runs stop() (three statements, each a step).     *)
(* The exchange's servers and the transport are the environment: they      *)
(* choose the historical response, the live messages and when the          *)
(* connection closes.  The observer passed to start_live is environment    *)
(* too: it may raise.                                                      *)
(***************************************************************************)
EXTENDS Integers, Sequences, FiniteSets, TLC

(* ------------------------------ bounds --------------------------------- *)
\* largest timestamp (ms) the environment puts in a record
MaxTs == 2
\* longest historical response list
MaxBatch == 2
\* fetch_historical calls per behaviour
MaxSyncs == 2
\* live messages delivered per behaviour (all specifications but the soaks)
MaxLive == 2
\* connections opened per behaviour
MaxConnects == 2
\* stop() calls per behaviour
MaxStops == 2
\* live messages delivered per behaviour under SoakSpec and ObserverSpec
SoakExtra == 4

(* ------------------------- program constants --------------------------- *)
\* streamer.py:312-313  keep last 10000 candles
MAX_CANDLES == 10000
\* streamer.py:323  auto-save every 100 candles
SAVE_EVERY == 100
\* streamer.py:91, 122, 151  page-size clamps of the three REST requests
BYBIT_PAGE == 1000
BINANCE_PAGE == 1500
OKX_PAGE == 300
\* streamer.py:59  default limit
DEFAULT_LIMIT == 1000

\* streamer.py:29-45  keys of EXCHANGES
EXCHANGES == {"bybit", "binance", "okx"}
\* an exchange selector that is no key of EXCHANGES (__init__ accepts any string)
Selectors == EXCHANGES \cup {"kraken"}

\* the text of a numeric field that int()/float() cannot parse
BadNum == -1

Min(a, b) == IF a <= b THEN a ELSE b

(* ------------------------- historical parsing -------------------------- *)
\* one kline of a REST response: kline[0] (open time) and kline[1..5] (prices, volume)
RawKlines == {[ts |-> t, px |-> 1] : t \in 1..MaxTs}
               \cup {[ts |-> 1, px |-> BadNum]}

\* int(kline[0]) and float(kline[i]) succeed
Parsable(k) == k.ts # BadNum /\ k.px # BadNum

\* the dict built at streamer.py:103-110 (no 'confirmed' key)
HistCandle(k) == [timestamp |-> k.ts, close |-> k.px]

RECURSIVE InsertByTs(_, _)
\* insert c after every element whose timestamp is <= c's (stable)
InsertByTs(s, c) ==
    IF s = <<>> THEN <<c>>
    ELSE IF s[Len(s)].timestamp <= c.timestamp THEN Append(s, c)
    ELSE Append(InsertByTs(SubSeq(s, 1, Len(s) - 1), c), s[Len(s)])

RECURSIVE SortedByTs(_)
\* sorted(candles, key=lambda x: x['timestamp'])  (stable)
SortedByTs(s) ==
    IF s = <<>> THEN <<>>
    ELSE InsertByTs(SortedByTs(SubSeq(s, 1, Len(s) - 1)), s[Len(s)])

\* the for-loops at streamer.py:102-110, 130-138, 162-170
ParseKlines(list) == [i \in 1..Len(list) |-> HistCandle(list[i])]

\* 'limit': min(limit, N) of the request params, streamer.py:91, 122, 151
PageSize(ex) ==
    CASE ex = "bybit" -> BYBIT_PAGE
      [] ex = "binance" -> BINANCE_PAGE
      [] ex = "okx" -> OKX_PAGE

(* What the REST endpoint answers.  kind:                                   *)
(*   "neterr"  requests.get raises (timeout, connection error)              *)
(*   "status"  a non-2xx status: resp.raise_for_status() raises             *)
(*   "noenv"   a JSON object without the expected envelope field            *)
(*   "ok"      a well-formed envelope carrying `list`                       *)
(* The server is not bound by the request's limit or by any order.          *)
BatchLists == UNION {[1..n -> RawKlines] : n \in 0..MaxBatch}
Responses == {[kind |-> k, list |-> <<>>] : k \in {"neterr", "status", "noenv"}}
               \cup {[kind |-> "ok", list |-> l] : l \in BatchLists}

\* what a _fetch_<exchange>_historical call does: `asked` is the 'limit' it
\* put in the request; it either raises or returns `data`
Raised(asked) == [ok |-> FALSE, data |-> <<>>, asked |-> asked]
Returned(asked, d) == [ok |-> TRUE, data |-> d, asked |-> asked]

\* the sort of lines 112 and 172, as a stage of its own
Ordered(s) == SortedByTs(s)

\* a parse loop that hands back what it had collected when a record failed
ParseBatchPartial(asked, list) ==
    LET bad == {i \in 1..Len(list) : ~Parsable(list[i])}
        upto == IF bad = {} THEN Len(list)
                ELSE (CHOOSE i \in bad : \A j \in bad : i <= j) - 1
    IN  Returned(asked, ParseKlines(SubSeq(list, 1, upto)))

\* the parse loop: a record that does not parse raises out of the helper and
\* the candles collected so far are dropped with its frame
ParseBatch(asked, list) ==
    IF \E i \in 1..Len(list) : ~Parsable(list[i]) THEN Raised(asked)
    ELSE Returned(asked, ParseKlines(list))

\* streamer.py:82-112
FetchBybit(limit, resp) ==
    LET asked == Min(limit, BYBIT_PAGE)
        p == ParseBatch(asked, resp.list)
    IN  IF resp.kind # "ok" THEN Raised(asked)
        ELSE IF p.ok THEN Returned(asked, Ordered(p.data)) ELSE p

\* streamer.py:114-140  (no envelope test: iterating a JSON object yields its
\* keys, and int(key[0]) raises; the list is returned in the order received)
FetchBinance(limit, resp) ==
    LET asked == Min(limit, BINANCE_PAGE)
    IN  IF resp.kind # "ok" THEN Raised(asked)
        ELSE ParseBatch(asked, resp.list)

\* streamer.py:142-172
FetchOkx(limit, resp) ==
    LET asked == Min(limit, OKX_PAGE)
        p == ParseBatch(asked, resp.list)
    IN  IF resp.kind # "ok" THEN Raised(asked)
        ELSE IF p.ok THEN Returned(asked, Ordered(p.data)) ELSE p

\* the if/elif chain of fetch_historical, streamer.py:64-71; the else branch
\* raises before any request is made
FetchDispatch(ex, limit, resp) ==
    CASE ex = "bybit" -> FetchBybit(limit, resp)
      [] ex = "binance" -> FetchBinance(limit, resp)
      [] ex = "okx" -> FetchOkx(limit, resp)
      [] OTHER -> Raised(0)

(* --------------------- timeline and checkpoints ------------------------ *)
Labels == {"historical", "live", "final"}

\* s[-n:] for 0 < n
LastN(s, n) == IF Len(s) <= n THEN s ELSE SubSeq(s, Len(s) - n + 1, Len(s))

(* The part of the session that _process_candle and _save_csv touch:        *)
(*   candles  self.candles                                                  *)
(*   files    label -> rows of <symbol>_<timeframe>_<label>.csv, <<>> when  *)
(*            the file was never written (to_csv overwrites)                *)
(*   writes   label -> number of to_csv calls so far                        *)
(*   arrived  history: the last seed followed by the candles given to       *)
(*            _process_candle since                                         *)
(*   since    history: candles processed since the last 'live' write        *)
(*   seen     history: the candles the observer was called with             *)

\* streamer.py:326-334
SaveCsv(m, prefix) ==
    IF m.candles = <<>> THEN m
    ELSE [m EXCEPT !.files[prefix] = m.candles, !.writes[prefix] = @ + 1]

\* a cap that keeps the oldest entries, candles[:10000]
TrimOldest(s) == IF Len(s) > MAX_CANDLES THEN SubSeq(s, 1, MAX_CANDLES) ELSE s

\* streamer.py:312-313
Trim(s) == IF Len(s) > MAX_CANDLES THEN LastN(s, MAX_CANDLES) ELSE s

\* streamer.py:323
SaveDue(s) == Len(s) % SAVE_EVERY = 0

\* streamer.py:307-324.  cb: self.on_candle_callback is set; raises: the
\* observer raises when called, which leaves _process_candle at line 320
ProcessCandle(m, candle, cb, raises) ==
    LET kept == Trim(Append(m.candles, candle))
        m1 == [m EXCEPT !.candles = kept,
                        !.arrived = Append(@, candle),
                        !.since = @ + 1,
                        !.seen = IF cb THEN Append(@, candle) ELSE @]
    IN  IF cb /\ raises THEN m1
        ELSE IF SaveDue(kept) THEN [SaveCsv(m1, "live") EXCEPT !.since = 0]
        ELSE m1

(* --------------------------- interval names ---------------------------- *)
(* Text that the code searches or compares is a sequence of tokens: each    *)
(* character of an interval code is a token of its own, and a literal such  *)
(* as "kline." that no interval code overlaps is one token.                 *)

\* streamer.py:33, 38, 43  the 'intervals' tables of EXCHANGES
Intervals(ex) ==
    CASE ex = "bybit" ->
           [tf \in {"1s", "1m", "5m", "15m", "1h", "4h", "1D"} |->
              CASE tf = "1s" -> <<"1">>
                [] tf = "1m" -> <<"1">>
                [] tf = "5m" -> <<"5">>
                [] tf = "15m" -> <<"1", "5">>
                [] tf = "1h" -> <<"6", "0">>
                [] tf = "4h" -> <<"2", "4", "0">>
                [] tf = "1D" -> <<"D">>]
      [] ex = "binance" ->
           [tf \in {"1s", "1m", "5m", "15m", "1h", "4h", "1D"} |->
              CASE tf = "1s" -> <<"1", "s">>
                [] tf = "1m" -> <<"1", "m">>
                [] tf = "5m" -> <<"5", "m">>
                [] tf = "15m" -> <<"1", "5", "m">>
                [] tf = "1h" -> <<"1", "h">>
                [] tf = "4h" -> <<"4", "h">>
                [] tf = "1D" -> <<"1", "d">>]
      [] ex = "okx" ->
           [tf \in {"1m", "5m", "15m", "1h", "4h", "1D"} |->
              CASE tf = "1m" -> <<"1", "m">>
                [] tf = "5m" -> <<"5", "m">>
                [] tf = "15m" -> <<"1", "5", "m">>
                [] tf = "1h" -> <<"1", "H">>
                [] tf = "4h" -> <<"4", "H">>
                [] tf = "1D" -> <<"1", "D">>]
      [] OTHER -> [tf \in {} |-> <<>>]

\* the second argument of .get(self.timeframe, ...), streamer.py:85, 117, 145
\* and 188, 237, 271
FallbackCode(ex) == IF ex = "bybit" THEN <<"1">> ELSE <<"1", "m">>

\* a lookup that indexes the table, intervals[self.timeframe]; the KeyError
\* of a missing key shows as the empty code
IndexCode(ex, tf) == IF tf \in DOMAIN Intervals(ex) THEN Intervals(ex)[tf] ELSE <<>>

\* self.EXCHANGES[ex]['intervals'].get(self.timeframe, default) of the REST
\* helpers, streamer.py:85, 117, 145
HistInterval(ex, tf) ==
    IF tf \in DOMAIN Intervals(ex) THEN Intervals(ex)[tf] ELSE FallbackCode(ex)

\* the same lookup in _start_<exchange>_ws, streamer.py:188, 237, 271
LiveInterval(ex, tf) ==
    IF tf \in DOMAIN Intervals(ex) THEN Intervals(ex)[tf] ELSE FallbackCode(ex)

\* the values self.timeframe takes: the choices of --timeframe (line 350) and
\* one string that is in no table
Timeframes == {"1s", "1m", "5m", "15m", "1h", "4h", "1D", "2h"}

\* needle in hay, Python's `in` on str
IsInfix(needle, hay) ==
    \E i \in 0..(Len(hay) - Len(needle)) :
        \A j \in 1..Len(needle) : hay[i + j] = needle[j]

(* --------------------------- live parsing ------------------------------ *)
\* one kline record of a push message: open time, prices/volume, closed flag
LiveRecs == {[ts |-> t, px |-> 1, confirm |-> c] : t \in 1..MaxTs, c \in BOOLEAN}
              \cup {[ts |-> 1, px |-> BadNum, confirm |-> FALSE]}

\* an element of 'data' that is no kline (a ticker, a trade): reading the
\* kline fields out of it raises
NotKline == [ts |-> BadNum, px |-> BadNum, confirm |-> FALSE]

(* A push message, by what the exchange says it is:                         *)
(*   chan "kline"  a kline/candle push for the interval code `ivl`          *)
(*   chan "other"  a push of another channel, carrying a 'data' field       *)
(*   chan "ack"    a subscription acknowledgement or a pong: no data        *)
(* bybit and okx carry a list of records, binance exactly one.              *)
KlineLists(ex) ==
    {<<r>> : r \in LiveRecs}
      \cup IF ex = "binance" THEN {}
           ELSE {<<r1, r2>> : r1 \in LiveRecs, r2 \in LiveRecs}

\* every interval code the exchange pushes klines for
Codes(ex) == {Intervals(ex)[tf] : tf \in DOMAIN Intervals(ex)}

Messages(ex, tf) ==
    {[chan |-> "ack", ivl |-> <<>>, recs |-> <<>>],
     [chan |-> "other", ivl |-> <<>>, recs |-> <<NotKline>>]}
      \cup {[chan |-> "kline", ivl |-> LiveInterval(ex, tf), recs |-> l] : l \in KlineLists(ex)}
      \cup {[chan |-> "kline", ivl |-> c, recs |-> <<[ts |-> t, px |-> 1, confirm |-> TRUE]>>] :
              c \in Codes(ex) \ {LiveInterval(ex, tf)}, t \in 1..MaxTs}

\* the k-th message of a feed that delivers one closed bar per message
SoakMsg(ex, tf, k) ==
    [chan |-> "kline", ivl |-> LiveInterval(ex, tf),
     recs |-> <<[ts |-> k, px |-> 1, confirm |-> TRUE]>>]

\* the 'topic' of a bybit push, "kline.<interval>.<symbol>" for a kline
BybitTopic(msg) ==
    CASE msg.chan = "kline" -> <<"kline.">> \o msg.ivl \o <<".", "BTCUSDT">>
      [] msg.chan = "other" -> <<"tickers.", "BTCUSDT">>
      [] OTHER -> <<>>

\* the test that guards the parse: streamer.py:193, 244, 277
Accepts(ex, tf, msg) ==
    CASE ex = "bybit" ->
           msg.chan # "ack" /\ IsInfix(<<"kline.">> \o LiveInterval(ex, tf), BybitTopic(msg))
      [] ex = "binance" -> msg.chan = "kline"
      [] ex = "okx" -> msg.chan # "ack"
      [] OTHER -> FALSE

\* the dicts built at streamer.py:195-203, 246-254, 279-287
LiveCandle(ex, r) ==
    [timestamp |-> r.ts, close |-> r.px,
     confirmed |-> IF ex = "okx" THEN TRUE ELSE r.confirm]

\* the records a handler walks: data[0] (bybit), k (binance), every element
\* of data (okx); streamer.py:194, 245, 278
Walked(ex, tf, msg) ==
    IF ~Accepts(ex, tf, msg) THEN <<>>
    ELSE IF ex = "okx" THEN msg.recs
    ELSE SubSeq(msg.recs, 1, 1)

RECURSIVE Handle(_, _, _, _, _)
\* the body of on_message under its try/except: the first record that fails
\* to parse raises, and so does an observer that raises out of
\* _process_candle; either ends the handler.  cb: an observer is registered;
\* boom: which of this message's observer calls raises (0: none).
\* streamer.py:190-206, 241-257, 274-290
Handle(m, ex, recs, cb, boom) ==
    IF recs = <<>> THEN m
    ELSE IF recs[1].ts = BadNum \/ recs[1].px = BadNum THEN m
    ELSE LET m1 == ProcessCandle(m, LiveCandle(ex, recs[1]), cb, boom = 1) IN
         IF cb /\ boom = 1 THEN m1
         ELSE Handle(m1, ex, Tail(recs), cb, IF boom > 0 THEN boom - 1 ELSE 0)

(* ------------------------------ state ---------------------------------- *)
VARIABLES
    exchange,   \* self.exchange
    timeframe,  \* self.timeframe
    running,    \* self.running
    callback,   \* self.on_candle_callback is set
    ws,         \* self.ws: 0 for None, else the number of the WebSocketApp
    url,        \* the URL self.ws was created with
    wpc,        \* where the live worker is
    inflight,   \* close() found the worker inside on_message
    connects,   \* WebSocketApp objects created (connections attempted)
    sent,       \* history: one entry per ws.send of on_open, the connection
                \* and the request
    spc,        \* where the stopper is inside stop()
    stops,      \* stop() calls begun
    candles,    \* self.candles
    files,      \* checkpoint files by label
    writes,     \* to_csv calls by label
    arrived,    \* history, see above
    since,      \* history, see above
    seen,       \* history, see above
    syncs,      \* fetch_historical calls made
    lives,      \* live messages delivered
    last,       \* the last fetch_historical call: its limit, the limit and the
                \* interval it asked the exchange for, whether the response was
                \* valid, whether it got to line 76 (ok) or to line 80, and
                \* what it returned
    lastMsg,    \* the last live message delivered, and which observer call
                \* raised while it was handled
    lastOp      \* which of fetch_historical / _process_candle last set candles

vars == <<exchange, timeframe, running, callback, ws, url, wpc, inflight, connects,
          sent, spc, stops, candles, files, writes, arrived, since, seen, syncs,
          lives, last, lastMsg, lastOp>>
config == <<exchange, timeframe>>
worker == <<ws, url, wpc, inflight, connects, sent>>
stopper == <<spc, stops>>
store == <<candles, files, writes, arrived, since, seen>>

Mem == [candles |-> candles, files |-> files, writes |-> writes,
        arrived |-> arrived, since |-> since, seen |-> seen]
SetMem(m) ==
    /\ candles' = m.candles
    /\ files' = m.files
    /\ writes' = m.writes
    /\ arrived' = m.arrived
    /\ since' = m.since
    /\ seen' = m.seen

\* before the first message
NoMsg == [chan |-> "none", ivl |-> <<>>, recs |-> <<>>, boom |-> 0]

\* streamer.py:47-57; neither the selector nor the timeframe is validated
Init ==
    /\ exchange \in Selectors
    /\ timeframe \in Timeframes
    /\ running = FALSE
    /\ callback = FALSE
    /\ ws = 0
    /\ url = <<>>
    /\ wpc = "idle"
    /\ inflight = FALSE
    /\ connects = 0
    /\ sent = <<>>
    /\ spc = "idle"
    /\ stops = 0
    /\ candles = <<>>
    /\ files = [l \in Labels |-> <<>>]
    /\ writes = [l \in Labels |-> 0]
    /\ arrived = <<>>
    /\ since = 0
    /\ seen = <<>>
    /\ syncs = 0
    /\ lives = 0
    /\ last = [limit |-> 0, asked |-> 0, interval |-> <<>>, valid |-> FALSE,
               ok |-> FALSE, ret |-> <<>>]
    /\ lastMsg = NoMsg
    /\ lastOp = "none"

(* --------------------------- fetch_historical -------------------------- *)
Limits == {1, DEFAULT_LIMIT}

\* a response fetch_historical can turn into candles: 2xx, the envelope
\* present, every numeric field of every record parsable
Valid(resp) ==
    resp.kind = "ok" /\ \A i \in 1..Len(resp.list) : Parsable(resp.list[i])

\* the 'interval' / 'bar' parameter of the request, streamer.py:89, 120, 149;
\* no request is made for a selector outside the chain
AskedInterval(ex, tf) == IF ex \in EXCHANGES THEN HistInterval(ex, tf) ELSE <<>>

\* streamer.py:59-80, one blocking call
FetchHistorical(limit, resp) ==
    LET r == FetchDispatch(exchange, limit, resp) IN
    /\ syncs < MaxSyncs
    /\ syncs' = syncs + 1
    /\ IF r.ok
       THEN /\ SetMem(SaveCsv([Mem EXCEPT !.candles = r.data, !.arrived = r.data],
                              "historical"))
            /\ last' = [limit |-> limit, asked |-> r.asked,
                        interval |-> AskedInterval(exchange, timeframe),
                        valid |-> Valid(resp), ok |-> TRUE, ret |-> r.data]
            /\ lastOp' = "sync"
       ELSE /\ UNCHANGED <<store, lastOp>>
            /\ last' = [limit |-> limit, asked |-> r.asked,
                        interval |-> AskedInterval(exchange, timeframe),
                        valid |-> Valid(resp), ok |-> FALSE, ret |-> <<>>]
    /\ UNCHANGED <<config, running, callback, worker, stopper, lives, lastMsg>>

(* ------------------------------ live worker ---------------------------- *)
\* the URL handed to WebSocketApp, streamer.py:227, 239/263, 301
WsUrl(ex, tf) ==
    CASE ex = "bybit" -> <<"wss://stream.bybit.com/v5/public/linear">>
      [] ex = "binance" ->
           <<"wss://fstream.binance.com/ws", "/", "btcusdt", "@kline_">>
             \o LiveInterval(ex, tf)
      [] ex = "okx" -> <<"wss://ws.okx.com:8443/ws/v5/public">>
      [] OTHER -> <<>>

\* an on_open that only prints, on every exchange
OnOpenPrints(ex, tf) == <<>>

\* what on_open sends, as the list of its ws.send payloads: the subscribe
\* request of bybit (210-214) and okx (294-298); binance's on_open only
\* prints (259-260)
OnOpenSends(ex, tf) ==
    CASE ex = "bybit" ->
           <<[op |-> "subscribe",
              args |-> <<"kline.">> \o LiveInterval(ex, tf) \o <<".", "BTCUSDT">>]>>
      [] ex = "okx" ->
           <<[op |-> "subscribe",
              args |-> <<"candle">> \o LiveInterval(ex, tf) \o <<"BTC-USDT-SWAP">>]>>
      [] OTHER -> <<>>

\* streamer.py:174-184 up to the WebSocketApp of _start_<exchange>_ws and its
\* run_forever; a selector outside the chain falls through and returns.
\* One session: start_live is called once, and not after stop().
StartLive(on_candle) ==
    /\ wpc = "idle"
    /\ stops = 0
    /\ running' = TRUE
    /\ callback' = on_candle
    /\ IF exchange \in EXCHANGES
       THEN /\ connects' = connects + 1
            /\ ws' = connects + 1
            /\ url' = WsUrl(exchange, timeframe)
            /\ wpc' = "connecting"
       ELSE /\ wpc' = "returned"
            /\ UNCHANGED <<ws, url, connects>>
    /\ UNCHANGED <<config, inflight, sent, stopper, store, syncs, lives, last,
                   lastMsg, lastOp>>

\* on_open, streamer.py:208-214, 259-260, 292-298
OnOpen ==
    /\ wpc = "connecting"
    /\ wpc' = "open"
    /\ sent' = sent \o [i \in DOMAIN OnOpenSends(exchange, timeframe) |->
                          [conn |-> ws, req |-> OnOpenSends(exchange, timeframe)[i]]]
    /\ UNCHANGED <<config, running, callback, ws, url, inflight, connects, stopper,
                   store, syncs, lives, last, lastMsg, lastOp>>

\* on_message, streamer.py:190-206, 241-257, 274-290.  The handler runs on
\* an open connection, or runs to its end after stop() closed the
\* connection under it.  boom: which observer call raises (0: none).
OnMessage(msg, boom) ==
    LET m == Handle(Mem, exchange, Walked(exchange, timeframe, msg), callback, boom) IN
    /\ wpc = "open" \/ (wpc = "closing" /\ inflight)
    /\ boom = 0 \/ callback
    /\ lives' = lives + 1
    /\ inflight' = FALSE
    /\ SetMem(m)
    /\ lastMsg' = [chan |-> msg.chan, ivl |-> msg.ivl, recs |-> msg.recs, boom |-> boom]
    /\ lastOp' = IF m.arrived # arrived THEN "candle" ELSE lastOp
    /\ UNCHANGED <<config, running, callback, ws, url, wpc, connects, sent, stopper,
                   syncs, last>>

\* the transport drops the connection or the remote end closes it:
\* run_forever leaves its loop and calls on_close if one is registered
TransportClose ==
    /\ wpc \in {"connecting", "open"}
    /\ wpc' = "closing"
    /\ UNCHANGED <<config, running, callback, ws, url, inflight, connects, sent,
                   stopper, store, syncs, lives, last, lastMsg, lastOp>>

\* on_close: registered by _start_bybit_ws only (streamer.py:219-232); the
\* WebSocketApp of binance and okx has none (262-266, 300-304), so
\* run_forever, the _start_*_ws call and start_live return.
\* bybit reads self.running and then sleeps (221-223).
OnClose ==
    /\ wpc = "closing"
    /\ ~inflight
    /\ wpc' = IF exchange = "bybit" /\ running THEN "delay" ELSE "returned"
    /\ UNCHANGED <<config, running, callback, ws, url, inflight, connects, sent,
                   stopper, store, syncs, lives, last, lastMsg, lastOp>>

\* after time.sleep(5): self._start_bybit_ws(), streamer.py:224, 226-233
Reconnect ==
    /\ wpc = "delay"
    /\ connects < MaxConnects
    /\ connects' = connects + 1
    /\ ws' = connects + 1
    /\ url' = WsUrl(exchange, timeframe)
    /\ wpc' = "connecting"
    /\ UNCHANGED <<config, running, callback, inflight, sent, stopper, store, syncs,
                   lives, last, lastMsg, lastOp>>

(* --------------------------------- stop -------------------------------- *)
\* streamer.py:338; a second call starts only after the first has returned
StopBegin ==
    /\ spc = "idle"
    /\ stops < MaxStops
    /\ stops' = stops + 1
    /\ running' = FALSE
    /\ spc' = "close"
    /\ UNCHANGED <<config, callback, worker, store, syncs, lives, last, lastMsg,
                   lastOp>>

\* streamer.py:339-340: closing the app the worker is running ends its
\* run_forever loop; closing one that has already ended does nothing.
\* stop() runs on another thread than the worker: the close can fall while
\* the worker is inside on_message with a frame it has already read (busy),
\* and the handler then runs to its end before run_forever returns.
StopClose(busy) ==
    /\ spc = "close"
    /\ spc' = "save"
    /\ busy => wpc = "open" /\ ws # 0 /\ lives < MaxLive
    /\ wpc' = IF ws # 0 /\ wpc \in {"connecting", "open"} THEN "closing" ELSE wpc
    /\ inflight' = busy
    /\ UNCHANGED <<config, running, callback, ws, url, connects, sent, stops, store,
                   syncs, lives, last, lastMsg, lastOp>>

\* streamer.py:341, then stop() returns
StopSave ==
    /\ spc = "save"
    /\ spc' = "idle"
    /\ SetMem(SaveCsv(Mem, "final"))
    /\ UNCHANGED <<config, running, callback, worker, stops, syncs, lives, last,
                   lastMsg, lastOp>>

(* --------------------------- specifications ---------------------------- *)
\* the observer of a message: it can raise on a call only if it is called
Booms(msg) == 0..Len(msg.recs)

\* two bars, newest first
SoakResp == [kind |-> "ok", list |-> <<[ts |-> 2, px |-> 1], [ts |-> 1, px |-> 1]>>]
\* as many bars as fill the buffer to one below its cap, oldest first (the
\* session state that MAX_CANDLES - 1 live candles also lead to)
FillResp == [kind |-> "ok", list |-> [i \in 1..(MAX_CANDLES - 1) |-> [ts |-> i, px |-> 1]]]

\* the exchange cannot be reached
DownResp == [kind |-> "neterr", list |-> <<>>]

\* a feed of closed bars: the k-th message carries the bar k, and the
\* observer does not raise
QuietMessage(max) ==
    lives < max /\ OnMessage(SoakMsg(exchange, timeframe, lives + 1), 0)

\* a session on the constructor's default timeframe (streamer.py:47)
DefaultInit == Init /\ timeframe = "1m"

\* the whole session over a feed of closed bars: the caller syncs, the
\* worker streams to an observer and reconnects, another thread stops
Next ==
    \/ \E limit \in Limits, resp \in Responses : FetchHistorical(limit, resp)
    \/ StartLive(TRUE)
    \/ OnOpen
    \/ QuietMessage(MaxLive)
    \/ TransportClose
    \/ OnClose
    \/ Reconnect
    \/ StopBegin
    \/ \E busy \in BOOLEAN : StopClose(busy)
    \/ StopSave

Spec == DefaultInit /\ [][Next]_vars

\* the live worker alone, over every message the exchange can push and every
\* observer: any timeframe, with or without an observer, which may raise
LiveNext ==
    \/ \E on_candle \in BOOLEAN : StartLive(on_candle)
    \/ OnOpen
    \/ \E msg \in Messages(exchange, timeframe) : \E boom \in Booms(msg) :
          lives < MaxLive /\ OnMessage(msg, boom)
    \/ TransportClose
    \/ OnClose
    \/ Reconnect

LiveSpec == Init /\ [][LiveNext]_vars

\* one session from construction on, over a feed of closed bars: any
\* exchange and timeframe, one sync (answered or not), the live worker with
\* its closes and reconnects
SessionNext ==
    \/ \E resp \in {SoakResp, DownResp} : FetchHistorical(DEFAULT_LIMIT, resp)
    \/ \E on_candle \in BOOLEAN : StartLive(on_candle)
    \/ OnOpen
    \/ QuietMessage(MaxLive)
    \/ TransportClose
    \/ OnClose
    \/ Reconnect

SessionSpec == Init /\ [][SessionNext]_vars

\* the caller syncing around a short quiet feed
SyncNext ==
    \/ \E limit \in Limits, resp \in Responses : FetchHistorical(limit, resp)
    \/ StartLive(FALSE)
    \/ OnOpen
    \/ QuietMessage(MaxLive)

SyncSpec == DefaultInit /\ [][SyncNext]_vars

\* the caller syncing around a quiet feed, with the buffer at its cap.
\* _process_candle and _save_csv do not read self.exchange: the soak runs on
\* binance, whose helper hands the list on as received.
SoakInit == DefaultInit /\ exchange = "binance"

SoakNext ==
    \/ \E resp \in {SoakResp, FillResp, DownResp} : FetchHistorical(DEFAULT_LIMIT, resp)
    \/ StartLive(FALSE)
    \/ OnOpen
    \/ QuietMessage(SoakExtra)

SoakSpec == SoakInit /\ [][SoakNext]_vars

\* the soak with an observer that may raise on any call
ObserverNext ==
    \/ \E resp \in {FillResp, DownResp} : FetchHistorical(DEFAULT_LIMIT, resp)
    \/ StartLive(TRUE)
    \/ OnOpen
    \/ \E boom \in {0, 1} :
          lives < SoakExtra /\ OnMessage(SoakMsg(exchange, timeframe, lives + 1), boom)

ObserverSpec == SoakInit /\ [][ObserverNext]_vars

(* ------------------------------- claims -------------------------------- *)
IsSortedByTs(s) == \A i \in 1..(Len(s) - 1) : s[i].timestamp <= s[i + 1].timestamp
StopReturned == stops > 0 /\ spc = "idle"
FetchStep == syncs' = syncs + 1

\* C1: on every supported exchange a close seen while running is true is
\* followed by a new connection, so the live worker never ends for good
\* (start_live returned) while running is still true.
C1_NeverEndsWhileRunning ==
    (exchange \in EXCHANGES /\ running) => wpc # "returned"

\* C2: once stop() has returned, no new connection is opened, whatever the
\* worker was doing when stop() was called.
C2_NoConnectAfterStop ==
    [][StopReturned => connects' = connects]_vars

\* C3: two stop() calls in a row write exactly one 'final' checkpoint in
\* total, whether the Timeline is empty or not.
C3_StopTwiceOneFinal ==
    (stops = 2 /\ spc = "idle") => writes["final"] = 1

\* C4: once _process_candle has returned, the Timeline holds at most 10,000
\* candles and is the most recent min(n, 10,000) entries of the last seed
\* followed by the live candles since, in arrival order.
C4_TimelineIsRecentWindow ==
    lastOp = "candle" =>
        /\ Len(candles) <= MAX_CANDLES
        /\ Len(candles) = Min(Len(arrived), MAX_CANDLES)
        /\ candles = SubSeq(arrived, Len(arrived) - Len(candles) + 1, Len(arrived))

\* C4 witness: more than 10,000 entries have arrived and the front was dropped
C4_Overflowed ==
    /\ lastOp = "candle"
    /\ Len(arrived) > MAX_CANDLES
    /\ Len(candles) = MAX_CANDLES
    /\ candles[1] # arrived[1]

\* C5: for every supported exchange and every valid response, in whatever
\* order its bars come, fetch_historical returns a sequence sorted
\* non-decreasing by timestamp.
C5_SyncSorted ==
    (exchange \in EXCHANGES /\ syncs > 0 /\ last.valid) =>
        (last.ok /\ IsSortedByTs(last.ret))

\* C6: for every supported exchange, limit and valid response, the returned
\* sequence is no longer than min(limit, the exchange's page size).
C6_SyncLength ==
    (exchange \in EXCHANGES /\ syncs > 0 /\ last.valid) =>
        Len(last.ret) <= Min(last.limit, PageSize(exchange))

\* C7: a fetch_historical call whose response is not valid (network error,
\* non-2xx status, missing envelope, an unparsable field in any record)
\* returns the empty sequence, leaves the Timeline as it was and writes no
\* checkpoint.
C7_FailedSyncChangesNothing ==
    [][(FetchStep /\ ~last'.valid) =>
          /\ ~last'.ok
          /\ last'.ret = <<>>
          /\ candles' = candles
          /\ files' = files
          /\ writes' = writes]_vars

\* C7 witness: a failed sync has happened on a Timeline seeded by an earlier one
C7_FailedOnSeeded ==
    /\ syncs = 2
    /\ ~last.valid
    /\ last.ret = <<>>
    /\ candles # <<>>
    /\ writes["historical"] = 1

\* C8: every sync that completes without failure replaces the Timeline with
\* the batch and writes a 'historical' checkpoint whose rows are that batch,
\* an empty batch included.
C8_SyncWritesHistorical ==
    [][(FetchStep /\ last'.ok) =>
          /\ candles' = last'.ret
          /\ writes'["historical"] = writes["historical"] + 1
          /\ files'["historical"] = last'.ret]_vars

\* C9: two consecutive 'live' checkpoints are separated by 100 appended live
\* candles, also when the Timeline is at its 10,000 cap.
C9_LiveCheckpointsEvery100 ==
    [][(writes'["live"] = writes["live"] + 1 /\ writes["live"] > 0) =>
          since + 1 = SAVE_EVERY]_vars

\* C10: stop() writes a 'final' checkpoint of the current Timeline before it
\* returns, in every session state.
C10_StopAlwaysWritesFinal ==
    [][(spc = "save" /\ spc' = "idle") =>
          writes'["final"] = writes["final"] + 1]_vars

(* --------------------------- claims on the feed ------------------------ *)
MessageStep == lives' = lives + 1

\* the message is a kline push for the session's own interval
Subscribed(msg) == msg.chan = "kline" /\ msg.ivl = LiveInterval(exchange, timeframe)

WellFormed(r) == r.ts # BadNum /\ r.px # BadNum

RECURSIVE CandlesOf(_, _)
\* the candles of the well-formed records of a list, in the list's order
CandlesOf(ex, recs) ==
    IF recs = <<>> THEN <<>>
    ELSE IF WellFormed(recs[1]) THEN <<LiveCandle(ex, recs[1])>> \o CandlesOf(ex, Tail(recs))
    ELSE CandlesOf(ex, Tail(recs))

\* the records that carry the bars of a push: every element of data on okx,
\* the one bar of the push on bybit and binance
Bars(ex, msg) == IF ex = "okx" THEN msg.recs ELSE SubSeq(msg.recs, 1, 1)

\* C11: every candle a subscribed live message parses to is appended to the
\* Timeline exactly once and handed to the registered observer exactly once,
\* in the order the transport delivered it and, within one message, in the
\* order of its records (here with an observer that does not raise).
C11_EveryCandleOnceInOrder ==
    [][(MessageStep /\ Subscribed(lastMsg') /\ lastMsg'.boom = 0) =>
          /\ arrived' = arrived \o CandlesOf(exchange, Bars(exchange, lastMsg'))
          /\ callback => seen' = seen \o CandlesOf(exchange, Bars(exchange, lastMsg'))]_vars

\* C12: on every exchange a message that is not the push the session
\* subscribed to (a kline push for another interval, a push of another
\* channel that carries data, an acknowledgement) yields no candle: the
\* Timeline is unchanged and the observer is not called.
C12_OtherTopicsIgnored ==
    [][(MessageStep /\ ~Subscribed(lastMsg')) =>
          /\ candles' = candles
          /\ arrived' = arrived
          /\ seen' = seen]_vars

(* ------------------------- claims on the handshake --------------------- *)
OpenStep == wpc = "connecting" /\ wpc' = "open"

\* a subscribe request for the session's interval, sent on connection n
IsSubscribe(e, n) ==
    /\ e.conn = n
    /\ e.req.op = "subscribe"
    /\ IsInfix(LiveInterval(exchange, timeframe), e.req.args)

\* C13, as stated: for every supported exchange every connection-open sends
\* exactly one subscribe request for the session's timeframe.
C13_SubscribeOnEveryOpen ==
    [][OpenStep =>
          /\ Len(sent') = Len(sent) + 1
          /\ IsSubscribe(sent'[Len(sent')], ws)]_vars

\* C13, amended: on bybit and okx every connection-open (the first and each
\* reconnect) sends exactly one subscribe request for the session's
\* interval, every request of a session is the same, and a candle is
\* dispatched only on a connection that has sent its request; binance sends
\* no request at all, its stream is named in the URL it connects to.
C13_SubscribeOrStreamUrl ==
    [][/\ (OpenStep /\ exchange # "binance") =>
             /\ Len(sent') = Len(sent) + 1
             /\ IsSubscribe(sent'[Len(sent')], ws)
       /\ (OpenStep /\ exchange = "binance") =>
             /\ sent' = sent
             /\ IsInfix(<<"@kline_">> \o LiveInterval(exchange, timeframe), url)
       /\ \A i \in DOMAIN sent' : sent'[i].req = sent'[1].req
       /\ (MessageStep /\ exchange # "binance") =>
             \E i \in DOMAIN sent : sent[i].conn = ws]_vars

\* C13 witness: a reconnected session has subscribed again and got a candle
C13_Resubscribed ==
    /\ connects = 2
    /\ wpc = "open"
    /\ Len(sent) = 2
    /\ sent[2].conn = 2
    /\ sent[2].req = sent[1].req
    /\ lastOp = "candle"

(* ----------------------- claims on the configuration ------------------- *)
\* C14: with a selector outside {bybit, binance, okx} neither
\* fetch_historical nor start_live completes normally: no call returns a
\* result to its caller and running never becomes true.  (fetch_historical
\* returns on each of its paths, lines 76 and 80, so a call counted in syncs
\* is a call that returned.)
C14_UnknownSelectorIsFatal ==
    exchange \notin EXCHANGES =>
        /\ syncs = 0
        /\ ~running
        /\ wpc # "returned"

(* ------------------------- claims on the candles ----------------------- *)
HasConfirmed(c) == "confirmed" \in DOMAIN c

\* C15: every candle a historical sync returns carries confirmed = true, and
\* every entry of the Timeline has a confirmed field.
C15_HistoricalIsConfirmed ==
    /\ \A i \in DOMAIN last.ret : HasConfirmed(last.ret[i]) /\ last.ret[i].confirmed
    /\ \A i \in DOMAIN candles : HasConfirmed(candles[i])

\* C16: a live candle whose timestamp equals that of the Timeline's last
\* entry replaces that entry, so the Timeline does not grow and no two
\* adjacent live entries share a timestamp.
C16_SameTimestampReplacesTail ==
    [][(/\ MessageStep
        /\ Len(arrived') = Len(arrived) + 1
        /\ candles # <<>>
        /\ arrived'[Len(arrived')].timestamp = candles[Len(candles)].timestamp) =>
          /\ Len(candles') = Len(candles)
          /\ candles'[Len(candles')] = arrived'[Len(arrived')]]_vars

(* ------------------------ claims on interval codes --------------------- *)
\* the code the claim names for a timeframe: the exchange's table entry, or
\* '1' (bybit) / '1m' (binance, okx) for a timeframe the table does not have
ClaimedCode(ex, tf) ==
    IF tf \in DOMAIN Intervals(ex) THEN Intervals(ex)[tf]
    ELSE CASE ex = "bybit" -> <<"1">>
           [] ex = "binance" -> <<"1", "m">>
           [] ex = "okx" -> <<"1", "m">>

\* the interval code inside a sent subscribe request
CodeOfRequest(ex, req) ==
    IF ex = "bybit" THEN SubSeq(req.args, 2, Len(req.args) - 2)
    ELSE SubSeq(req.args, 2, Len(req.args) - 1)

\* the interval code at the end of binance's stream URL
CodeOfUrl(u) == SubSeq(u, 5, Len(u))

\* C17: on every supported exchange the interval code of the historical
\* request and the one of the live subscription are the exchange's table
\* entry for the session's timeframe, or the exchange's fixed default when
\* the table has no such timeframe (the lookup does not fail), and so the
\* two are the same code.
C17_IntervalCode ==
    exchange \in EXCHANGES =>
        /\ syncs > 0 => last.interval = ClaimedCode(exchange, timeframe)
        /\ \A i \in DOMAIN sent :
              CodeOfRequest(exchange, sent[i].req) = ClaimedCode(exchange, timeframe)
        /\ (exchange = "binance" /\ url # <<>>) =>
              CodeOfUrl(url) = ClaimedCode(exchange, timeframe)
        /\ (syncs > 0 /\ sent # <<>>) =>
              last.interval = CodeOfRequest(exchange, sent[1].req)

\* C17 witness: an okx session on 1s, which okx's table does not have, has
\* synced and subscribed with the default code
C17_FellBack ==
    /\ exchange = "okx"
    /\ timeframe = "1s"
    /\ syncs > 0
    /\ last.interval = <<"1", "m">>
    /\ sent # <<>>
    /\ CodeOfRequest(exchange, sent[1].req) = <<"1", "m">>

(* ----------------------- claims on failures of the feed ---------------- *)
HasMalformed(recs) == \E i \in DOMAIN recs : ~WellFormed(recs[i])

\* C18: a malformed record of a live message is skipped alone: the
\* well-formed records of the same message, before and after it, and those
\* of later messages are still appended and handed to the observer.
C18_MalformedRecordSkippedAlone ==
    [][(/\ MessageStep
        /\ Subscribed(lastMsg')
        /\ lastMsg'.boom = 0
        /\ HasMalformed(lastMsg.recs) \/ HasMalformed(lastMsg'.recs)) =>
          /\ Len(arrived') =
               Len(arrived) + Len(CandlesOf(exchange, Bars(exchange, lastMsg')))
          /\ \A i \in DOMAIN CandlesOf(exchange, Bars(exchange, lastMsg')) :
                /\ arrived'[Len(arrived) + i] = CandlesOf(exchange, Bars(exchange, lastMsg'))[i]
                /\ callback => seen'[Len(seen) + i] = arrived'[Len(arrived) + i]]_vars

\* C19: an observer that raises does not disturb the session: the candle
\* being dispatched stays in the Timeline, the worker keeps its connection,
\* and the 'live' checkpoint that the append calls for (Timeline length a
\* multiple of 100) is written all the same.
C19_RaisingObserverHarmless ==
    [][(MessageStep /\ lastMsg'.boom = 1 /\ Len(arrived') = Len(arrived) + 1) =>
          /\ candles'[Len(candles')] = arrived'[Len(arrived')]
          /\ wpc' = wpc
          /\ SaveDue(candles') =>
                /\ writes'["live"] = writes["live"] + 1
                /\ files'["live"] = candles']_vars

(* --------------------------- claims on stop ---------------------------- *)
\* C20: when another thread calls stop(), then in every interleaving with a
\* message the worker is handling, nothing happens to the session after
\* stop() has returned: no candle is appended, the observer is not called
\* and no 'live' checkpoint is written, so the 'final' file keeps the
\* Timeline's last contents.
C20_NothingAfterStopReturned ==
    [][(StopReturned /\ MessageStep) =>
          /\ candles' = candles
          /\ seen' = seen
          /\ writes'["live"] = writes["live"]
          /\ files'["final"] = candles']_vars

====
